---- MODULE Spec2Model ----
(***************************************************************************)
(* Diagnostics of the MIR unsafety checker and of the assert lints, as     *)
(* assembled by compiler/rustc_mir_transform/src/errors.rs.                *)
(*                                                                         *)
(* A diagnostic is a record: msg (message key), code (error code, "" when  *)
(* none), span (primary span, 0 when unset), labels (sequence of           *)
(* <<span, key>>), children (the sub-diagnostics in the order they were    *)
(* attached: <<level, span, key>>, span 0 when the child has no span),     *)
(* args (the set_arg calls in the order they were made: <<name, value>>)   *)
(* and suggestions.  Spans are small positive integers; 0 is Option::None. *)
(***************************************************************************)
EXTENDS Integers, Sequences, FiniteSets, TLC

VARIABLES item, req, hardDiag, lintIn, lintDiag, assertRes, report

vars == <<item, req, hardDiag, lintIn, lintDiag, assertRes, report>>

\* ---- bounds ----
MaxSpan == 2
MaxFeat == 1

Spans == 1..MaxSpan
OptSpans == 0..MaxSpan
Features == {"avx2", "sse4.2"}
FeatureLists == UNION {[1..n -> Features] : n \in 0..MaxFeat}

\* ---- UnsafetyViolationDetails (the 11 kinds matched in errors.rs) ----
UnitKinds ==
    {"CallToUnsafeFunction", "UseOfInlineAssembly", "InitializingTypeWith",
     "CastOfPointerToInt", "UseOfMutableStatic", "UseOfExternStatic",
     "DerefOfRawPointer", "AccessToUnionField",
     "MutationOfLayoutConstrainedField", "BorrowOfLayoutConstrainedField"}

UnsafetyViolationDetails ==
    {[kind |-> k, missing |-> <<>>, build_enabled |-> <<>>] : k \in UnitKinds}
    \cup {[kind |-> "CallToFunctionWith", missing |-> m, build_enabled |-> b] :
            m \in FeatureLists, b \in FeatureLists}

RequiresUnsafeDetail ==
    {[span |-> s, violation |-> v] : s \in Spans, v \in UnsafetyViolationDetails}

RequiresUnsafe ==
    {[span |-> s, details |-> d, enclosing |-> e, op_in_unsafe_fn_allowed |-> a] :
        s \in Spans, d \in RequiresUnsafeDetail, e \in OptSpans, a \in BOOLEAN}

\* Option<(Span, Span, Span)>: <<>> is None, <<start, end, fn_sig>> is Some
SuggestUnsafeBlock == {<<>>} \cup (Spans \X Spans \X Spans)

UnsafeOpInUnsafeFn ==
    {[details |-> d, suggest_unsafe_block |-> s] :
        d \in RequiresUnsafeDetail, s \in SuggestUnsafeBlock}

\* ---- the diagnostic under construction ----
struct_diagnostic(msg) ==
    [msg |-> msg, code |-> "", span |-> 0, labels |-> <<>>, children |-> <<>>,
     args |-> <<>>, suggestions |-> <<>>]

NoDiag == struct_diagnostic("")

eagerly_translate_to_string(key) == <<"Str", <<"translated", key>>>>

BoolArg(b) == <<"Str", IF b THEN "true" ELSE "false">>

\* ---- RequiresUnsafeDetail::label ----
label(self) ==
    CASE self.violation.kind = "CallToUnsafeFunction" -> "mir_transform_call_to_unsafe_label"
      [] self.violation.kind = "UseOfInlineAssembly" -> "mir_transform_use_of_asm_label"
      [] self.violation.kind = "InitializingTypeWith" -> "mir_transform_initializing_valid_range_label"
      [] self.violation.kind = "CastOfPointerToInt" -> "mir_transform_const_ptr2int_label"
      [] self.violation.kind = "UseOfMutableStatic" -> "mir_transform_use_of_static_mut_label"
      [] self.violation.kind = "UseOfExternStatic" -> "mir_transform_use_of_extern_static_label"
      [] self.violation.kind = "DerefOfRawPointer" -> "mir_transform_deref_ptr_label"
      [] self.violation.kind = "AccessToUnionField" -> "mir_transform_union_access_label"
      [] self.violation.kind = "MutationOfLayoutConstrainedField" ->
             "mir_transform_mutation_layout_constrained_label"
      [] self.violation.kind = "BorrowOfLayoutConstrainedField" ->
             "mir_transform_mutation_layout_constrained_borrow_label"
      [] self.violation.kind = "CallToFunctionWith" -> "mir_transform_target_feature_call_label"

UnitNote(kind) ==
    CASE kind = "CallToUnsafeFunction" -> "mir_transform_call_to_unsafe_note"
      [] kind = "UseOfInlineAssembly" -> "mir_transform_use_of_asm_note"
      [] kind = "InitializingTypeWith" -> "mir_transform_initializing_valid_range_note"
      [] kind = "CastOfPointerToInt" -> "mir_transform_const_ptr2int_note"
      [] kind = "UseOfMutableStatic" -> "mir_transform_use_of_static_mut_note"
      [] kind = "UseOfExternStatic" -> "mir_transform_use_of_extern_static_note"
      [] kind = "DerefOfRawPointer" -> "mir_transform_deref_ptr_note"
      [] kind = "AccessToUnionField" -> "mir_transform_union_access_note"
      [] kind = "MutationOfLayoutConstrainedField" ->
             "mir_transform_mutation_layout_constrained_note"
      [] kind = "BorrowOfLayoutConstrainedField" ->
             "mir_transform_mutation_layout_constrained_borrow_note"

\* ---- RequiresUnsafeDetail::add_subdiagnostics ----
\* the build-enabled branch taken unconditionally
add_subdiagnostics_always_note(self, diag) ==
    IF self.violation.kind \in UnitKinds
    THEN [diag EXCEPT !.children = Append(@, <<"note", 0, UnitNote(self.violation.kind)>>)]
    ELSE [diag EXCEPT
            !.children = @ \o <<<<"help", 0, "mir_transform_target_feature_call_help">>,
                                <<"note", 0, "mir_transform_target_feature_call_note">>>>,
            !.args = @ \o
                <<<<"missing_target_features", <<"StrListSepByAnd", self.violation.missing>>>>,
                  <<"missing_target_features_count", <<"Number", Len(self.violation.missing)>>>>,
                  <<"build_target_features", <<"StrListSepByAnd", self.violation.build_enabled>>>>,
                  <<"build_target_features_count",
                    <<"Number", Len(self.violation.build_enabled)>>>>>>]

\* the count bound under the name of the list
add_subdiagnostics_same_name(self, diag) ==
    IF self.violation.kind \in UnitKinds
    THEN [diag EXCEPT !.children = Append(@, <<"note", 0, UnitNote(self.violation.kind)>>)]
    ELSE LET withMissing ==
                 [diag EXCEPT
                    !.children = Append(@, <<"help", 0, "mir_transform_target_feature_call_help">>),
                    !.args = @ \o
                        <<<<"missing_target_features",
                            <<"StrListSepByAnd", self.violation.missing>>>>,
                          <<"missing_target_features",
                            <<"Number", Len(self.violation.missing)>>>>>>]
         IN IF self.violation.build_enabled # <<>>
            THEN [withMissing EXCEPT
                    !.children = Append(@, <<"note", 0, "mir_transform_target_feature_call_note">>),
                    !.args = @ \o
                        <<<<"build_target_features",
                            <<"StrListSepByAnd", self.violation.build_enabled>>>>,
                          <<"build_target_features_count",
                            <<"Number", Len(self.violation.build_enabled)>>>>>>]
            ELSE withMissing

add_subdiagnostics(self, diag) ==
    IF self.violation.kind \in UnitKinds
    THEN [diag EXCEPT !.children = Append(@, <<"note", 0, UnitNote(self.violation.kind)>>)]
    ELSE LET withMissing ==
                 [diag EXCEPT
                    !.children = Append(@, <<"help", 0, "mir_transform_target_feature_call_help">>),
                    !.args = @ \o
                        <<<<"missing_target_features",
                            <<"StrListSepByAnd", self.violation.missing>>>>,
                          <<"missing_target_features_count",
                            <<"Number", Len(self.violation.missing)>>>>>>]
         IN IF self.violation.build_enabled # <<>>
            THEN [withMissing EXCEPT
                    !.children = Append(@, <<"note", 0, "mir_transform_target_feature_call_note">>),
                    !.args = @ \o
                        <<<<"build_target_features",
                            <<"StrListSepByAnd", self.violation.build_enabled>>>>,
                          <<"build_target_features_count",
                            <<"Number", Len(self.violation.build_enabled)>>>>>>]
            ELSE withMissing

\* ---- RequiresUnsafe::into_diagnostic ----
\* the error code left out
into_diagnostic_no_code(self) ==
    LET d1 == [struct_diagnostic("mir_transform_requires_unsafe") EXCEPT
                 !.span = self.span,
                 !.labels = <<<<self.span, label(self.details)>>>>,
                 !.args = <<<<"details", eagerly_translate_to_string(label(self.details))>>,
                            <<"op_in_unsafe_fn_allowed", BoolArg(self.op_in_unsafe_fn_allowed)>>>>]
        d2 == add_subdiagnostics(self.details, d1)
    IN IF self.enclosing # 0
       THEN [d2 EXCEPT !.labels = Append(@, <<self.enclosing, "mir_transform_not_inherited">>)]
       ELSE d2

into_diagnostic(self) ==
    LET d1 == [struct_diagnostic("mir_transform_requires_unsafe") EXCEPT
                 !.code = "E0133",
                 !.span = self.span,
                 !.labels = <<<<self.span, label(self.details)>>>>,
                 !.args = <<<<"details", eagerly_translate_to_string(label(self.details))>>,
                            <<"op_in_unsafe_fn_allowed", BoolArg(self.op_in_unsafe_fn_allowed)>>>>]
        d2 == add_subdiagnostics(self.details, d1)
    IN IF self.enclosing # 0
       THEN [d2 EXCEPT !.labels = Append(@, <<self.enclosing, "mir_transform_not_inherited">>)]
       ELSE d2

\* ---- UnsafeOpInUnsafeFn::decorate_lint / msg ----
UnsafeOpInUnsafeFn_msg(self) == "mir_transform_unsafe_op_in_unsafe_fn"

OpenText == <<" ", "u", "n", "s", "a", "f", "e", " ", "{">>
CloseText == <<"}">>

Suggest(self, diag) ==
    IF self.suggest_unsafe_block # <<>>
    THEN [diag EXCEPT
            !.children = Append(@, <<"note", self.suggest_unsafe_block[3], "mir_transform_note">>),
            !.suggestions = Append(@,
                [msg |-> "mir_transform_suggestion",
                 parts |-> <<<<self.suggest_unsafe_block[1], OpenText>>,
                             <<self.suggest_unsafe_block[2], CloseText>>>>,
                 applicability |-> "MaybeIncorrect",
                 style |-> "CompletelyHidden"])]
    ELSE diag

\* the per-kind sub-diagnostics not attached on the lint path
decorate_lint_no_subdiagnostics(self, diag) ==
    Suggest(self,
        [diag EXCEPT
           !.args = Append(@, <<"details", eagerly_translate_to_string(label(self.details))>>),
           !.labels = Append(@, <<self.details.span, label(self.details)>>)])

decorate_lint(self, diag) ==
    Suggest(self,
        add_subdiagnostics(self.details,
            [diag EXCEPT
               !.args = Append(@, <<"details", eagerly_translate_to_string(label(self.details))>>),
               !.labels = Append(@, <<self.details.span, label(self.details)>>)]))

\* ---- AssertLint<P> ----
\* The panic payload P: a message key and the arguments it supplies.
AssertKind ==
    {[message |-> "middle_assert_overflow", args |-> <<<<"op", <<"Str", "+">>>>>>],
     [message |-> "middle_assert_divide_by_zero", args |-> <<>>]}

AssertLint ==
    {[tag |-> t, span |-> s, payload |-> p] :
        t \in {"ArithmeticOverflow", "UnconditionalPanic"}, s \in Spans, p \in AssertKind}

NoFinding == [tag |-> "", span |-> 0, payload |-> [message |-> "", args |-> <<>>]]

AssertLint_msg(self) ==
    CASE self.tag = "ArithmeticOverflow" -> "mir_transform_arithmetic_overflow"
      [] self.tag = "UnconditionalPanic" -> "mir_transform_operation_will_panic"

\* both variants mapped to the overflow lint
lint_one_lint(self) ==
    CASE self.tag = "ArithmeticOverflow" -> "ARITHMETIC_OVERFLOW"
      [] self.tag = "UnconditionalPanic" -> "ARITHMETIC_OVERFLOW"

lint(self) ==
    CASE self.tag = "ArithmeticOverflow" -> "ARITHMETIC_OVERFLOW"
      [] self.tag = "UnconditionalPanic" -> "UNCONDITIONAL_PANIC"

span(self) == self.span

panic(self) == self.payload

AssertLint_decorate_lint(self, diag) ==
    LET sp == span(self)
        assert_kind == panic(self)
        message == assert_kind.message
    IN [diag EXCEPT
          !.args = @ \o assert_kind.args,
          !.labels = Append(@, <<sp, message>>)]

\* ---- the caller of the assembler: classification of a violation ----
\* rule 2 applied to every context
classify_always_lint(enclosing_is_unsafe_fn, unsafe_op_in_unsafe_fn_allowed) ==
    IF unsafe_op_in_unsafe_fn_allowed /\ enclosing_is_unsafe_fn THEN "Permitted" ELSE "Lint"

\* the policy flag ignored
classify_ignores_policy(enclosing_is_unsafe_fn, unsafe_op_in_unsafe_fn_allowed) ==
    IF ~enclosing_is_unsafe_fn THEN "HardError" ELSE "Lint"

classify(enclosing_is_unsafe_fn, unsafe_op_in_unsafe_fn_allowed) ==
    IF ~enclosing_is_unsafe_fn THEN "HardError"
    ELSE IF ~unsafe_op_in_unsafe_fn_allowed THEN "Lint"
    ELSE "Permitted"

\* ---- state ----
NoDetail == [span |-> 0, violation |-> [kind |-> "", missing |-> <<>>, build_enabled |-> <<>>]]
NoItem == [type |-> "none", detail |-> NoDetail, finding |-> NoFinding]
NoReq == [span |-> 0, details |-> NoDetail, enclosing |-> 0, op_in_unsafe_fn_allowed |-> FALSE]
NoLintIn == [details |-> NoDetail, suggest_unsafe_block |-> <<>>]
NoAssertRes == [lint |-> "", span |-> 0, panic |-> NoFinding.payload, diag |-> NoDiag]
NoReport == [enclosing_is_unsafe_fn |-> FALSE, unsafe_op_in_unsafe_fn_allowed |-> FALSE,
             outcome |-> "none", record |-> "none"]

Init ==
    /\ item = NoItem
    /\ req = NoReq
    /\ hardDiag = NoDiag
    /\ lintIn = NoLintIn
    /\ lintDiag = NoDiag
    /\ assertRes = NoAssertRes
    /\ report = NoReport

\* A violation is discovered: a RequiresUnsafeDetail is constructed.
NewViolation(d) ==
    /\ item' = [type |-> "violation", detail |-> d, finding |-> NoFinding]
    /\ req' = NoReq
    /\ hardDiag' = NoDiag
    /\ lintIn' = NoLintIn
    /\ lintDiag' = NoDiag
    /\ assertRes' = NoAssertRes
    /\ report' = NoReport

\* An assert finding is discovered: an AssertLint is constructed.
NewFinding(f) ==
    /\ item' = [type |-> "finding", detail |-> NoDetail, finding |-> f]
    /\ req' = NoReq
    /\ hardDiag' = NoDiag
    /\ lintIn' = NoLintIn
    /\ lintDiag' = NoDiag
    /\ assertRes' = NoAssertRes
    /\ report' = NoReport

\* sess.emit_err(RequiresUnsafe { span, details, enclosing, op_in_unsafe_fn_allowed })
EmitRequiresUnsafe(s, e, a) ==
    /\ item.type = "violation"
    /\ req' = [span |-> s, details |-> item.detail, enclosing |-> e,
               op_in_unsafe_fn_allowed |-> a]
    /\ hardDiag' = into_diagnostic(req')
    /\ UNCHANGED <<item, lintIn, lintDiag, assertRes, report>>

\* emit_spanned_lint(.., UnsafeOpInUnsafeFn { details, suggest_unsafe_block })
EmitUnsafeOpInUnsafeFn(sugg) ==
    /\ item.type = "violation"
    /\ lintIn' = [details |-> item.detail, suggest_unsafe_block |-> sugg]
    /\ lintDiag' = decorate_lint(lintIn', struct_diagnostic(UnsafeOpInUnsafeFn_msg(lintIn')))
    /\ UNCHANGED <<item, req, hardDiag, assertRes, report>>

\* emit_spanned_lint(lint.lint(), .., lint.span(), lint) for an AssertLint
EmitAssertLint ==
    /\ item.type = "finding"
    /\ assertRes' = [lint |-> lint(item.finding),
                     span |-> span(item.finding),
                     panic |-> panic(item.finding),
                     diag |-> AssertLint_decorate_lint(item.finding,
                                  struct_diagnostic(AssertLint_msg(item.finding)))]
    /\ UNCHANGED <<item, req, hardDiag, lintIn, lintDiag, report>>

Next ==
    \/ \E d \in RequiresUnsafeDetail : NewViolation(d)
    \/ \E f \in AssertLint : NewFinding(f)
    \/ \E s \in Spans, e \in OptSpans, a \in BOOLEAN : EmitRequiresUnsafe(s, e, a)
    \/ \E sugg \in SuggestUnsafeBlock : EmitUnsafeOpInUnsafeFn(sugg)
    \/ EmitAssertLint

Spec == Init /\ [][Next]_vars

\* ---- the walker: classify each violation, then assemble ----
ReportViolation(enclosing_is_unsafe_fn, unsafe_op_in_unsafe_fn_allowed, e, sugg) ==
    LET outcome == classify(enclosing_is_unsafe_fn, unsafe_op_in_unsafe_fn_allowed)
        d == item.detail
        r == [span |-> d.span, details |-> d, enclosing |-> e,
              op_in_unsafe_fn_allowed |-> unsafe_op_in_unsafe_fn_allowed]
        l == [details |-> d, suggest_unsafe_block |-> sugg]
    IN /\ item.type = "violation"
       /\ report' = [enclosing_is_unsafe_fn |-> enclosing_is_unsafe_fn,
                     unsafe_op_in_unsafe_fn_allowed |-> unsafe_op_in_unsafe_fn_allowed,
                     outcome |-> outcome,
                     record |-> CASE outcome = "HardError" -> "RequiresUnsafe"
                                  [] outcome = "Lint" -> "UnsafeOpInUnsafeFn"
                                  [] OTHER -> "none"]
       /\ req' = IF outcome = "HardError" THEN r ELSE NoReq
       /\ hardDiag' = IF outcome = "HardError" THEN into_diagnostic(r) ELSE NoDiag
       /\ lintIn' = IF outcome = "Lint" THEN l ELSE NoLintIn
       /\ lintDiag' = IF outcome = "Lint"
                      THEN decorate_lint(l, struct_diagnostic(UnsafeOpInUnsafeFn_msg(l)))
                      ELSE NoDiag
       /\ UNCHANGED <<item, assertRes>>

NextWalker ==
    \/ \E d \in RequiresUnsafeDetail : NewViolation(d)
    \/ \E u \in BOOLEAN, a \in BOOLEAN, e \in OptSpans, sugg \in SuggestUnsafeBlock :
        ReportViolation(u, a, e, sugg)

SpecWalker == Init /\ [][NextWalker]_vars

\* ---- reading a diagnostic ----
ArgsNamed(diag, name) == {i \in 1..Len(diag.args) : diag.args[i][1] = name}
HasArg(diag, name) == ArgsNamed(diag, name) # {}
HasChild(diag, level, key) ==
    \E i \in 1..Len(diag.children) : diag.children[i][1] = level /\ diag.children[i][3] = key
Contains(text, ch) == \E i \in 1..Len(text) : text[i] = ch
IsCallToFunctionWith == item.detail.violation.kind = "CallToFunctionWith"
Assembled == {d \in {hardDiag, lintDiag} : d # NoDiag}

\* C1: for a CallToFunctionWith violation, on the hard-error and on the lint
\* path, the build_target_features argument and the target-feature note are
\* present exactly when build_enabled is non-empty, and the target-feature help
\* and the missing_target_features argument are always present.
C1_TargetFeatureNoteIffBuildEnabled ==
    IsCallToFunctionWith =>
        \A d \in Assembled :
            /\ HasArg(d, "build_target_features") <=> item.detail.violation.build_enabled # <<>>
            /\ HasChild(d, "note", "mir_transform_target_feature_call_note")
                   <=> item.detail.violation.build_enabled # <<>>
            /\ HasChild(d, "help", "mir_transform_target_feature_call_help")
            /\ HasArg(d, "missing_target_features")

C1_Witness ==
    /\ IsCallToFunctionWith
    /\ item.detail.violation.build_enabled = <<>>
    /\ item.detail.violation.missing # <<>>
    /\ hardDiag # NoDiag
    /\ lintDiag # NoDiag
    /\ ~HasArg(hardDiag, "build_target_features")
    /\ HasChild(lintDiag, "help", "mir_transform_target_feature_call_help")

\* C2: the classification depends only on the two flags, never on the kind:
\* not in an unsafe fn gives HardError whatever the policy, in an unsafe fn
\* gives Lint when the policy forbids and Permitted when it allows; Permitted
\* assembles nothing, HardError a RequiresUnsafe, Lint an UnsafeOpInUnsafeFn.
C2_ClassifierTable ==
    report.outcome # "none" =>
        /\ ~report.enclosing_is_unsafe_fn => report.outcome = "HardError"
        /\ (report.enclosing_is_unsafe_fn /\ ~report.unsafe_op_in_unsafe_fn_allowed)
               => report.outcome = "Lint"
        /\ (report.enclosing_is_unsafe_fn /\ report.unsafe_op_in_unsafe_fn_allowed)
               => report.outcome = "Permitted"
        /\ report.outcome = "Permitted" => (hardDiag = NoDiag /\ lintDiag = NoDiag)
        /\ report.outcome = "HardError" =>
               (req.details = item.detail /\ hardDiag # NoDiag /\ lintDiag = NoDiag)
        /\ report.outcome = "Lint" =>
               (lintIn.details = item.detail /\ lintDiag # NoDiag /\ hardDiag = NoDiag)

C2_Witness ==
    /\ report.outcome = "Permitted"
    /\ report.enclosing_is_unsafe_fn
    /\ report.unsafe_op_in_unsafe_fn_allowed
    /\ IsCallToFunctionWith
    /\ hardDiag = NoDiag

\* C3 (as claimed): a hard error has its primary span and its primary label
\* at the location of the violation detail, and the requires-unsafe message,
\* whatever the fields of the RequiresUnsafe.
C3_PrimarySpanIsDetailSpan ==
    hardDiag # NoDiag =>
        /\ hardDiag.span = item.detail.span
        /\ hardDiag.labels[1] = <<item.detail.span, label(item.detail)>>
        /\ hardDiag.msg = "mir_transform_requires_unsafe"

\* C4: a hard error carries the code E0133; a lint for an unsafe operation in
\* an unsafe fn and an assert lint carry no error code.
C4_ErrorCode ==
    /\ hardDiag # NoDiag => hardDiag.code = "E0133"
    /\ lintDiag # NoDiag => lintDiag.code = ""
    /\ assertRes # NoAssertRes => assertRes.diag.code = ""

C4_Witness ==
    /\ hardDiag # NoDiag
    /\ lintDiag # NoDiag
    /\ hardDiag.code = "E0133"

\* C5 (as claimed): a given suggestion yields one code-fix of exactly two edits,
\* an opening brace in the text at the body start, a closing brace in the text
\* at the body end, and the two edits are never at the same span.
C5_SuggestionEditsDistinct ==
    lintIn.suggest_unsafe_block # <<>> =>
        /\ Len(lintDiag.suggestions) = 1
        /\ Len(lintDiag.suggestions[1].parts) = 2
        /\ lintDiag.suggestions[1].parts[1][1] = lintIn.suggest_unsafe_block[1]
        /\ Contains(lintDiag.suggestions[1].parts[1][2], "{")
        /\ lintDiag.suggestions[1].parts[2][1] = lintIn.suggest_unsafe_block[2]
        /\ Contains(lintDiag.suggestions[1].parts[2][2], "}")
        /\ lintDiag.suggestions[1].parts[1][1] # lintDiag.suggestions[1].parts[2][1]

\* C6 (as claimed): no assembled diagnostic carries an empty
\* missing_target_features list or a missing_target_features_count of 0.
C6_NoEmptyMissingRendered ==
    \A d \in Assembled :
        /\ \A i \in ArgsNamed(d, "missing_target_features") : d.args[i][2][2] # <<>>
        /\ \A i \in ArgsNamed(d, "missing_target_features_count") : d.args[i][2][2] # 0

\* C7 (as claimed): a suggestion is present only when the enclosing function
\* is not marked unsafe and the violation was classified as Lint.
C7_SuggestionOnlyOutsideUnsafeFn ==
    lintIn.suggest_unsafe_block # <<>> =>
        (~report.enclosing_is_unsafe_fn /\ report.outcome = "Lint")

\* C7 (amended): a suggestion is present only when the enclosing function is
\* itself marked unsafe and the violation was classified as Lint.
C7_SuggestionOnlyInUnsafeFnLint ==
    (lintIn.suggest_unsafe_block # <<>> \/ lintDiag.suggestions # <<>>) =>
        (report.enclosing_is_unsafe_fn /\ report.outcome = "Lint")

C7_Witness ==
    /\ lintIn.suggest_unsafe_block # <<>>
    /\ lintDiag.suggestions # <<>>
    /\ report.outcome = "Lint"

\* C8: lint() is decided by the variant alone, the two lints differ, span()
\* is the stored span and panic() the stored payload.
C8_AssertLintProjections ==
    assertRes # NoAssertRes =>
        /\ item.finding.tag = "ArithmeticOverflow" => assertRes.lint = "ARITHMETIC_OVERFLOW"
        /\ item.finding.tag = "UnconditionalPanic" => assertRes.lint = "UNCONDITIONAL_PANIC"
        /\ assertRes.span = item.finding.span
        /\ assertRes.panic = item.finding.payload
        /\ assertRes.diag.labels = <<<<item.finding.span, item.finding.payload.message>>>>

C8_Witness ==
    /\ assertRes # NoAssertRes
    /\ item.finding.tag = "UnconditionalPanic"
    /\ item.finding.span = MaxSpan
    /\ assertRes.lint = "UNCONDITIONAL_PANIC"

\* C9: in an assembled hard error or lint no argument name is set twice.
C9_ArgNamesSetOnce ==
    \A d \in Assembled :
        \A i, j \in 1..Len(d.args) : d.args[i][1] = d.args[j][1] => i = j

C9_Witness ==
    /\ IsCallToFunctionWith
    /\ item.detail.violation.build_enabled # <<>>
    /\ hardDiag # NoDiag
    /\ lintDiag # NoDiag
    /\ Len(hardDiag.args) = 6
    /\ Len(lintDiag.args) = 5

\* C10: the hard error and the lint of one violation attach the same label
\* key, per-kind notes, help and per-kind arguments in the same order; a unit
\* kind gets exactly one note, no help and no per-kind argument on each path.
IsKindChild(c) == ~(c[1] = "note" /\ c[3] = "mir_transform_note")
IsKindArg(a) == a[1] # "op_in_unsafe_fn_allowed"
IsKindLabel(l) == l[2] # "mir_transform_not_inherited"
LabelKeys(ls) == [i \in 1..Len(ls) |-> ls[i][2]]
KindPart(diag) ==
    [labels |-> LabelKeys(SelectSeq(diag.labels, IsKindLabel)),
     children |-> SelectSeq(diag.children, IsKindChild),
     args |-> SelectSeq(diag.args, IsKindArg)]

====
